---- MODULE Spec2Model ----
(***************************************************************************)
(* Room session hub of Synaptic (the PartyKit server, SynapticServer) as a *)
(* state machine: one step per transport event (onConnect, onMessage,      *)
(* onClose), each handled to completion before the next one.               *)
(*                                                                         *)
(* The clients (the useMultiplayer hook) are modelled in the               *)
(* specifications that list them; the others are the hub alone.            *)
(*                                                                         *)
(* Representation of JavaScript values:                                    *)
(*   - connection ids are small integers (they are opaque strings in the   *)
(*     code and are only compared and used as keys);                       *)
(*   - a string-typed field that is absent holds the token `undefined`;    *)
(*     an absent position holds `undefinedVec`;                            *)
(*   - JSON numerals are kept as their literal text ("1.6"), the hub never *)
(*     computes with them;                                                 *)
(*   - a chat text is a record [kind, body, length]: the hub reads its     *)
(*     truthiness and its .length;                                         *)
(*   - Date.now() is an integer clock reading handed to each handler.      *)
(***************************************************************************)
EXTENDS Integers, Sequences, FiniteSets, TLC

VARIABLES
    conns,        \* this.room.getConnections(): ids of the open connections
    players,      \* this.state.players
    currentMood,  \* this.state.currentMood
    chatHistory,  \* this.state.chatHistory
    now,          \* the latest Date.now() reading
    sent,         \* conn.send calls of the last handler: recipient -> envelopes
    last,         \* the last handler run: [op, conn, msg, threw, had, open]
    joined,       \* history: connections whose JOIN was accepted since they opened
    tap,          \* history: connections whose inbound stream is recorded in log
    log,          \* history: per tapped connection, what was sent to it, in order
    commits,      \* history: number of handler runs that called broadcast (tapped runs)
    hook,         \* per client: the state of its useMultiplayer hook
    inbox,        \* per client: envelopes the hub sent that its listener has yet to take
    outbox,       \* per client: socket.send calls of sendPosition, each with its time
    calls,        \* history: per client, number of sendPosition calls
    partySocket,  \* per client: its PartySocket: [readyState, queue, wire, retries]
    controls,     \* per client: the refs of its Controls frame loop
    feed          \* history: the chat messages the hub accepted, in commit order

vars == <<conns, players, currentMood, chatHistory, now, sent, last, joined, tap, log, commits,
          hook, inbox, outbox, calls, partySocket, controls, feed>>

----------------------------------------------------------------------------
(* Program constants *)

MaxPlayers == 8
MaxChatHistory == 50
MaxTextLength == 500
InitChatCount == 20
PositionUpdateRate == 10
MirrorKeep == 49
ControlsInterval == 100
MaxReconnectAttempts == 5

(* Bounds of the explorations *)

NConn == 3        \* Spec: connections 1..NConn
MaxLog == 1       \* Spec: chats are sent while chatHistory holds fewer messages
Spare == 1        \* SpecRoom: connections 1..MaxPlayers + Spare
Lively == 2       \* SpecRoom: the last Lively connections also move, chat and leave
Listeners == 1    \* SpecChat: connections besides the one that chats
Over == 2         \* SpecChat: MaxChatHistory + Over chats are handled
NOrder == 2       \* SpecOrder: connections 1..NOrder, all tapped
MaxCommits == 3   \* SpecOrder: broadcasting handler runs
NParse == 2       \* SpecParse: connections 1..NParse
NEdge == 2        \* SpecEdge: connections 1..NEdge
EdgeLog == 2      \* SpecEdge: chats are sent while chatHistory holds fewer messages
Epoch == 1000     \* SpecThrottle: the clock's reading at the start
Horizon == 250    \* SpecThrottle: the clock runs from Epoch to Epoch + Horizon
MinFrame == 3     \* SpecThrottle: shortest time between two frames
MaxFrame == 4     \* SpecThrottle: longest time between two frames that follow closely
Burst == 50       \* SpecThrottle: calls of sendPosition that make a burst
FeedLen == 52     \* SpecFeed: chat messages the hub accepts in a run
MaxWire == 2      \* SpecAgent: messages of a client that wait for the hub
Attempts == 6     \* SpecAgent: attempts to connect that fail in a row
NMirror == 2      \* SpecMirror: connections 1..NMirror, the first one with its client
MaxInbox == 2     \* SpecMirror: the hub runs while every inbox holds fewer envelopes

----------------------------------------------------------------------------
(* JavaScript values *)

undefined == "undefined"
undefinedVec == <<>>

Truthy(v) == v # undefined /\ v # ""

OrElse(v, d) == IF Truthy(v) THEN v ELSE d

Str(body, n) == [kind |-> "string", body |-> body, length |-> n]
undefinedText == [kind |-> "undefined", body |-> "", length |-> 0]
numberText == [kind |-> "number", body |-> "123", length |-> 0]

\* !text
Falsy(text) == text.kind = "undefined" \/ (text.kind = "string" /\ text.length = 0)

\* text.length > 500 (a number has no length: undefined > 500 is false)
TooLongFrom500(text) == text.kind = "string" /\ text.length >= MaxTextLength

TooLong(text) == text.kind = "string" /\ text.length > MaxTextLength

\* array.slice(-n)
SliceLast(s, n) == IF Len(s) <= n THEN s ELSE SubSeq(s, Len(s) - n + 1, Len(s))

SpawnPosition == <<"0", "1.6", "5">>
SpawnRotation == "0"

----------------------------------------------------------------------------
(* Inbound messages: the outcome of JSON.parse and the fields the hub reads *)

NoPayload ==
    [name |-> undefined, avatar |-> undefined, avatarColor |-> undefined,
     position |-> undefinedVec, rotation |-> undefined,
     text |-> undefinedText, mood |-> undefined]

Object(type, hasPayload, payload) ==
    [json |-> "object", type |-> type, hasPayload |-> hasPayload, payload |-> payload]

NotJson == [json |-> "invalid", type |-> undefined, hasPayload |-> FALSE, payload |-> NoPayload]
JsonNull == [json |-> "null", type |-> undefined, hasPayload |-> FALSE, payload |-> NoPayload]
JsonScalar == [json |-> "scalar", type |-> undefined, hasPayload |-> FALSE, payload |-> NoPayload]

JoinMsg(name, avatar, avatarColor) ==
    Object("JOIN", TRUE,
           [NoPayload EXCEPT !.name = name, !.avatar = avatar, !.avatarColor = avatarColor])
MoveMsg(position, rotation) ==
    Object("MOVE", TRUE, [NoPayload EXCEPT !.position = position, !.rotation = rotation])
ChatMsg(text) == Object("CHAT", TRUE, [NoPayload EXCEPT !.text = text])
MoodMsg(mood) == Object("UPDATE_MOOD", TRUE, [NoPayload EXCEPT !.mood = mood])
PingMsg == Object("PING", TRUE, NoPayload)

NoMsg == [json |-> "none", type |-> undefined, hasPayload |-> FALSE, payload |-> NoPayload]

ClientTypes == {"JOIN", "MOVE", "CHAT", "UPDATE_MOOD", "PING"}

\* Does the message parse into the closed client message set of the protocol?
WellFormed(m) ==
    /\ m.json = "object"
    /\ m.type \in ClientTypes
    /\ m.hasPayload
    /\ m.type = "JOIN" =>
          /\ m.payload.name # undefined
          /\ m.payload.avatar # undefined
          /\ m.payload.avatarColor # undefined
    /\ m.type = "MOVE" =>
          /\ m.payload.position # undefinedVec
          /\ m.payload.rotation # undefined
    /\ m.type = "CHAT" => m.payload.text.kind = "string"
    /\ m.type = "UPDATE_MOOD" => m.payload.mood # undefined

----------------------------------------------------------------------------
(* Outbound envelopes *)

Envelope(type, payload, t) == [type |-> type, payload |-> payload, timestamp |-> t]

RoomFull == "Room is full (max 8 players)"

BroadcastTypes == {"PLAYER_JOINED", "PLAYER_MOVED", "PLAYER_LEFT", "CHAT_MESSAGE", "MOOD_CHANGE"}

NoSends == <<>>

\* conn.send(message) to one connection
SendTo(c, message) == c :> <<message>>

\* this.broadcast(message, exclude) over the connections cs
Broadcast(cs, message, exclude) == [c \in (cs \ exclude) |-> <<message>>]

----------------------------------------------------------------------------
(* Handlers, as functions of the room state and the event.  A result holds  *)
(* the room state the handler leaves, what it sent, whether it ended by an  *)
(* uncaught exception, and whether it called this.broadcast.                *)

Result(pl, mood, chat, out, threw, bcast) ==
    [players |-> pl, currentMood |-> mood, chatHistory |-> chat,
     sent |-> out, threw |-> threw, bcast |-> bcast]

\* return / break with nothing done
Dropped(st) == Result(st.players, st.currentMood, st.chatHistory, NoSends, FALSE, FALSE)

\* an uncaught TypeError before any assignment
Thrown(st) == Result(st.players, st.currentMood, st.chatHistory, NoSends, TRUE, FALSE)

NewPlayerAtOrigin(id, p) ==
    [id |-> id,
     name |-> OrElse(p.name, "Anonymous"),
     avatar |-> OrElse(p.avatar, "classic"),
     avatarColor |-> OrElse(p.avatarColor, "#6366f1"),
     position |-> <<"0", "0", "0">>,
     rotation |-> SpawnRotation,
     isActive |-> TRUE]

NewPlayer(id, p) ==
    [id |-> id,
     name |-> OrElse(p.name, "Anonymous"),
     avatar |-> OrElse(p.avatar, "classic"),
     avatarColor |-> OrElse(p.avatarColor, "#6366f1"),
     position |-> SpawnPosition,
     rotation |-> SpawnRotation,
     isActive |-> TRUE]

RoomIsFullOffByOne(pl) == Cardinality(DOMAIN pl) > MaxPlayers

RoomIsFull(pl) == Cardinality(DOMAIN pl) >= MaxPlayers

OnJoinErrorToAll(st, cs, sender, p, ts) ==
    IF RoomIsFull(st.players)
    THEN Result(st.players, st.currentMood, st.chatHistory,
                Broadcast(cs, Envelope("ERROR", [message |-> RoomFull], ts[1]), {}),
                FALSE, FALSE)
    ELSE LET pl == (sender :> NewPlayer(sender, p)) @@ st.players
         IN  Result(pl, st.currentMood, st.chatHistory,
                    Broadcast(cs, Envelope("PLAYER_JOINED", pl[sender], ts[1]), {sender}),
                    FALSE, TRUE)

OnJoinOnce(st, cs, sender, p, ts) ==
    IF sender \in DOMAIN st.players
    THEN Dropped(st)
    ELSE IF RoomIsFull(st.players)
    THEN Result(st.players, st.currentMood, st.chatHistory,
                SendTo(sender, Envelope("ERROR", [message |-> RoomFull], ts[1])),
                FALSE, FALSE)
    ELSE LET pl == (sender :> NewPlayer(sender, p)) @@ st.players
         IN  Result(pl, st.currentMood, st.chatHistory,
                    Broadcast(cs, Envelope("PLAYER_JOINED", pl[sender], ts[1]), {sender}),
                    FALSE, TRUE)

OnJoinToldToAll(st, cs, sender, p, ts) ==
    IF RoomIsFull(st.players)
    THEN Result(st.players, st.currentMood, st.chatHistory,
                SendTo(sender, Envelope("ERROR", [message |-> RoomFull], ts[1])),
                FALSE, FALSE)
    ELSE LET pl == (sender :> NewPlayer(sender, p)) @@ st.players
         IN  Result(pl, st.currentMood, st.chatHistory,
                    Broadcast(cs, Envelope("PLAYER_JOINED", pl[sender], ts[1]), {}),
                    FALSE, TRUE)

OnJoin(st, cs, sender, p, ts) ==
    IF RoomIsFull(st.players)
    THEN Result(st.players, st.currentMood, st.chatHistory,
                SendTo(sender, Envelope("ERROR", [message |-> RoomFull], ts[1])),
                FALSE, FALSE)
    ELSE LET pl == (sender :> NewPlayer(sender, p)) @@ st.players
         IN  Result(pl, st.currentMood, st.chatHistory,
                    Broadcast(cs, Envelope("PLAYER_JOINED", pl[sender], ts[1]), {sender}),
                    FALSE, TRUE)

OnMoveUpsert(st, cs, sender, p, ts) ==
    LET old == IF sender \in DOMAIN st.players THEN st.players[sender]
               ELSE [id |-> sender, name |-> undefined, avatar |-> undefined,
                     avatarColor |-> undefined, position |-> undefinedVec,
                     rotation |-> undefined, isActive |-> FALSE]
        pl == (sender :> [old EXCEPT !.position = p.position, !.rotation = p.rotation,
                                     !.isActive = TRUE]) @@ st.players
    IN  Result(pl, st.currentMood, st.chatHistory,
               Broadcast(cs, Envelope("PLAYER_MOVED",
                                      [id |-> sender, position |-> p.position,
                                       rotation |-> p.rotation], ts[1]), {sender}),
               FALSE, TRUE)

OnMove(st, cs, sender, p, ts) ==
    IF sender \in DOMAIN st.players
    THEN LET pl == [st.players EXCEPT ![sender].position = p.position,
                                      ![sender].rotation = p.rotation,
                                      ![sender].isActive = TRUE]
         IN  Result(pl, st.currentMood, st.chatHistory,
                    Broadcast(cs, Envelope("PLAYER_MOVED",
                                           [id |-> sender, position |-> p.position,
                                            rotation |-> p.rotation], ts[1]), {sender}),
                    FALSE, TRUE)
    ELSE Dropped(st)

SenderName(pl, sender) ==
    IF sender \in DOMAIN pl THEN OrElse(pl[sender].name, "Unknown") ELSE "Unknown"

AppendedNoTrim(chat, msg) == Append(chat, msg)

\* push, then keep the last 50
Appended(chat, msg) ==
    LET pushed == Append(chat, msg)
    IN  IF Len(pushed) > MaxChatHistory THEN SliceLast(pushed, MaxChatHistory) ELSE pushed

OnChatToOthers(st, cs, sender, p, ts) ==
    IF Falsy(p.text) \/ TooLong(p.text)
    THEN Dropped(st)
    ELSE LET msg == [id |-> <<sender, ts[1]>>,
                     senderId |-> sender,
                     senderName |-> SenderName(st.players, sender),
                     text |-> p.text,
                     timestamp |-> ts[2]]
         IN  Result(st.players, st.currentMood, Appended(st.chatHistory, msg),
                    Broadcast(cs, Envelope("CHAT_MESSAGE", msg, ts[3]), {sender}),
                    FALSE, TRUE)

OnChat(st, cs, sender, p, ts) ==
    IF Falsy(p.text) \/ TooLong(p.text)
    THEN Dropped(st)
    ELSE LET msg == [id |-> <<sender, ts[1]>>,
                     senderId |-> sender,
                     senderName |-> SenderName(st.players, sender),
                     text |-> p.text,
                     timestamp |-> ts[2]]
         IN  Result(st.players, st.currentMood, Appended(st.chatHistory, msg),
                    Broadcast(cs, Envelope("CHAT_MESSAGE", msg, ts[3]), {}),
                    FALSE, TRUE)

OnUpdateMoodOnChange(st, cs, sender, p, ts) ==
    IF p.mood = st.currentMood
    THEN Dropped(st)
    ELSE Result(st.players, p.mood, st.chatHistory,
                Broadcast(cs, Envelope("MOOD_CHANGE", [mood |-> p.mood], ts[1]), {}),
                FALSE, TRUE)

OnUpdateMood(st, cs, sender, p, ts) ==
    Result(st.players, p.mood, st.chatHistory,
           Broadcast(cs, Envelope("MOOD_CHANGE", [mood |-> p.mood], ts[1]), {}),
           FALSE, TRUE)

OnPingToAll(st, cs, sender, ts) ==
    Result(st.players, st.currentMood, st.chatHistory,
           Broadcast(cs, Envelope("PONG", <<>>, ts[1]), {}), FALSE, FALSE)

OnPing(st, cs, sender, ts) ==
    Result(st.players, st.currentMood, st.chatHistory,
           SendTo(sender, Envelope("PONG", <<>>, ts[1])), FALSE, FALSE)

\* onMessage(message, sender), m being what JSON.parse makes of message
OnMessage(st, cs, sender, m, ts) ==
    IF m.json = "invalid" THEN Dropped(st)
    ELSE IF m.json = "null" THEN Thrown(st)
    ELSE IF m.json # "object" \/ m.type \notin ClientTypes THEN Dropped(st)
    ELSE IF m.type = "PING" THEN OnPing(st, cs, sender, ts)
    ELSE IF ~m.hasPayload THEN Thrown(st)
    ELSE CASE m.type = "JOIN" -> OnJoin(st, cs, sender, m.payload, ts)
           [] m.type = "MOVE" -> OnMove(st, cs, sender, m.payload, ts)
           [] m.type = "CHAT" -> OnChat(st, cs, sender, m.payload, ts)
           [] m.type = "UPDATE_MOOD" -> OnUpdateMood(st, cs, sender, m.payload, ts)

OnConnectWholeHistory(st, conn, t) ==
    Result(st.players, st.currentMood, st.chatHistory,
           SendTo(conn, Envelope("INIT",
                                 [players |-> st.players,
                                  currentMood |-> st.currentMood,
                                  chatHistory |-> st.chatHistory], t)),
           FALSE, FALSE)

OnConnect(st, conn, t) ==
    Result(st.players, st.currentMood, st.chatHistory,
           SendTo(conn, Envelope("INIT",
                                 [players |-> st.players,
                                  currentMood |-> st.currentMood,
                                  chatHistory |-> SliceLast(st.chatHistory, InitChatCount)],
                                 t)),
           FALSE, FALSE)

WithoutNothing(pl, id) == pl

\* delete this.state.players[conn.id]
Without(pl, id) == [k \in (DOMAIN pl \ {id}) |-> pl[k]]

OnCloseSilent(st, cs, conn, t) ==
    Result(Without(st.players, conn), st.currentMood, st.chatHistory, NoSends, FALSE, FALSE)

OnCloseStrict(st, cs, conn, t) ==
    IF conn \in DOMAIN st.players
    THEN Result(Without(st.players, conn), st.currentMood, st.chatHistory,
                Broadcast(cs, Envelope("PLAYER_LEFT", [id |-> conn], t), {}),
                FALSE, TRUE)
    ELSE Thrown(st)

OnClose(st, cs, conn, t) ==
    Result(Without(st.players, conn), st.currentMood, st.chatHistory,
           Broadcast(cs, Envelope("PLAYER_LEFT", [id |-> conn], t), {}),
           FALSE, TRUE)

----------------------------------------------------------------------------
(* The transport's view of what was sent: every conn.send appends to the    *)
(* ordered stream of its connection.  log records the streams of the tapped *)
(* connections (their broadcast envelopes), each entry stamped with the     *)
(* number of the broadcasting handler run it belongs to.                    *)

Stamped(out, n) == [i \in 1..Len(out) |-> [seq |-> n, env |-> out[i]]]

IsBroadcast(entry) == entry.env.type \in BroadcastTypes

RecordedNewestFirst(lg, out, n) ==
    [c \in DOMAIN lg |->
        IF c \in DOMAIN out THEN SelectSeq(Stamped(out[c], n), IsBroadcast) \o lg[c] ELSE lg[c]]

Recorded(lg, out, n) ==
    [c \in DOMAIN lg |->
        IF c \in DOMAIN out THEN lg[c] \o SelectSeq(Stamped(out[c], n), IsBroadcast) ELSE lg[c]]

----------------------------------------------------------------------------
(* State machine *)

\* What the clients' sockets hold after a handler run: a socket that has just
\* opened holds what onConnect sent to it, the others what they held and then
\* what the run sent to them.
Delivered(box, out, op, conn) ==
    [c \in DOMAIN box |->
        IF c \notin DOMAIN out THEN box[c]
        ELSE IF op = "onConnect" /\ c = conn THEN out[c]
        ELSE box[c] \o out[c]]

Room == [players |-> players, currentMood |-> currentMood, chatHistory |-> chatHistory]

NoPlayers == <<>>

\* The feed is kept only where a specification turns it on.
NoFeed == [on |-> FALSE, all |-> <<>>]

Init ==
    /\ conns = {}
    /\ players = NoPlayers
    /\ currentMood = "neutral"
    /\ chatHistory = <<>>
    /\ now = 0
    /\ sent = NoSends
    /\ last = [op |-> "none", conn |-> 0, msg |-> NoMsg, threw |-> FALSE, had |-> FALSE,
             open |-> FALSE]
    /\ joined = {}
    /\ tap = {}
    /\ log = <<>>
    /\ commits = 0
    /\ hook = <<>>
    /\ inbox = <<>>
    /\ outbox = <<>>
    /\ calls = <<>>
    /\ partySocket = <<>>
    /\ controls = <<>>
    /\ feed = NoFeed

\* The handler's result r becomes the state; where the feed is kept, an accepted
\* CHAT adds the message it pushed.  last.had records whether the
\* connection had a PlayerState when the handler started, last.open whether the
\* transport listed it as open when its event arrived.
Commit(r, op, conn, m) ==
    /\ players' = r.players
    /\ currentMood' = r.currentMood
    /\ chatHistory' = r.chatHistory
    /\ sent' = r.sent
    /\ last' = [op |-> op, conn |-> conn, msg |-> m, threw |-> r.threw,
                had |-> conn \in DOMAIN players, open |-> conn \in conns]
    /\ commits' = IF r.bcast /\ tap # {} THEN commits + 1 ELSE commits
    /\ log' = Recorded(log, r.sent, commits')
    /\ inbox' = Delivered(inbox, r.sent, op, conn)
    /\ feed' = IF feed.on /\ op = "onMessage" /\ m.json = "object" /\ m.type = "CHAT"
                  /\ m.hasPayload /\ r.bcast
               THEN [feed EXCEPT !.all = Append(@, r.chatHistory[Len(r.chatHistory)])]
               ELSE feed
    /\ UNCHANGED <<tap, hook, outbox, calls, controls>>

\* A connection opens: the transport registers it, then onConnect runs.
Connect(c, t) ==
    /\ c \notin conns
    /\ t >= now
    /\ conns' = conns \cup {c}
    /\ joined' = joined \ {c}
    /\ now' = t
    /\ UNCHANGED partySocket
    /\ Commit(OnConnect(Room, c, t), "onConnect", c, NoMsg)

\* A JOIN is accepted when its handler ends normally without a reply to the sender.
Accepted(c, m, r) ==
    m.json = "object" /\ m.type = "JOIN" /\ ~r.threw /\ c \notin DOMAIN r.sent

\* A message of an open connection arrives: onMessage runs.
\* ts are the handler's Date.now() readings, in order.
Handle(c, m, ts) ==
    LET r == OnMessage(Room, conns, c, m, ts)
    IN  /\ c \in conns
        /\ now <= ts[1] /\ ts[1] <= ts[2] /\ ts[2] <= ts[3]
        /\ now' = ts[3]
        /\ joined' = IF Accepted(c, m, r) THEN joined \cup {c} ELSE joined
        /\ UNCHANGED conns
        /\ Commit(r, "onMessage", c, m)

Message(c, m, ts) == Handle(c, m, ts) /\ UNCHANGED partySocket

\* A connection closes: the transport drops it, then onClose runs.
Close(c, t) ==
    /\ c \in conns
    /\ t >= now
    /\ conns' = conns \ {c}
    /\ joined' = joined \ {c}
    /\ now' = t
    /\ UNCHANGED partySocket
    /\ Commit(OnClose(Room, conns', c, t), "onClose", c, NoMsg)

\* The close event of a connection that is no longer open arrives once more:
\* onClose runs again for its id.
Reclose(c, t) ==
    /\ c \notin conns
    /\ t >= now
    /\ now' = t
    /\ UNCHANGED <<conns, joined, partySocket>>
    /\ Commit(OnClose(Room, conns, c, t), "onClose", c, NoMsg)

Join(c, name, avatar, avatarColor, t) == Message(c, JoinMsg(name, avatar, avatarColor), <<t, t, t>>)
Move(c, position, rotation, t) == Message(c, MoveMsg(position, rotation), <<t, t, t>>)
Chat(c, text, ts) == Message(c, ChatMsg(text), ts)
UpdateMood(c, mood, t) == Message(c, MoodMsg(mood), <<t, t, t>>)
Ping(c, t) == Message(c, PingMsg, <<t, t, t>>)

----------------------------------------------------------------------------
(* The client: the useMultiplayer hook.  Its state is a record: players,    *)
(* chatMessages and currentMood mirror the room, isConnected and            *)
(* connectionId (0 for null) are what it tells of the connection, socket    *)
(* tells whether socketRef.current is set, lastPositionSend is the          *)
(* throttle's reference, heartbeat whether the heartbeat interval is set    *)
(* and effect how far the connection effect has come: "pending", "run" or   *)
(* "cleaned".                                                               *)

NewHook(socket) ==
    [players |-> NoPlayers, chatMessages |-> <<>>, currentMood |-> "neutral",
     isConnected |-> FALSE, connectionId |-> 0,
     socket |-> socket, lastPositionSend |-> 0,
     heartbeat |-> socket, effect |-> IF socket THEN "run" ELSE "pending"]

\* new Date(timestamp)
DateOf(ms) == [date |-> ms]

\* { ...p, lastActive: new Date() }
Seen(p, d) ==
    [id |-> p.id, name |-> p.name, avatar |-> p.avatar, avatarColor |-> p.avatarColor,
     position |-> p.position, rotation |-> p.rotation, isActive |-> p.isActive,
     lastActive |-> DateOf(d)]

\* { ...m, timestamp: new Date(m.timestamp) }
Dated(m) ==
    [id |-> m.id, senderId |-> m.senderId, senderName |-> m.senderName,
     text |-> m.text, timestamp |-> DateOf(m.timestamp)]

OnInitMerged(h, p, d) ==
    [h EXCEPT !.players = [id \in DOMAIN p.players |-> Seen(p.players[id], d)],
              !.currentMood = OrElse(p.currentMood, "neutral"),
              !.chatMessages = h.chatMessages \o
                                 [i \in 1..Len(p.chatHistory) |-> Dated(p.chatHistory[i])]]

OnInit(h, p, d) ==
    [h EXCEPT !.players = [id \in DOMAIN p.players |-> Seen(p.players[id], d)],
              !.currentMood = OrElse(p.currentMood, "neutral"),
              !.chatMessages = [i \in 1..Len(p.chatHistory) |-> Dated(p.chatHistory[i])]]

\* The 'message' listener, env being what JSON.parse makes of event.data and
\* d the reading of the client's clock.
OnEnvelope(h, env, d) ==
    CASE env.type = "INIT" -> OnInit(h, env.payload, d)
      [] env.type = "PLAYER_JOINED" ->
            [h EXCEPT !.players = (env.payload.id :> Seen(env.payload, d)) @@ h.players]
      [] env.type = "PLAYER_MOVED" ->
            IF env.payload.id \in DOMAIN h.players
            THEN [h EXCEPT !.players[env.payload.id].position = env.payload.position,
                           !.players[env.payload.id].rotation = env.payload.rotation,
                           !.players[env.payload.id].isActive = TRUE,
                           !.players[env.payload.id].lastActive = DateOf(d)]
            ELSE h
      [] env.type = "PLAYER_LEFT" ->
            [h EXCEPT !.players = Without(h.players, env.payload.id)]
      [] env.type = "CHAT_MESSAGE" ->
            [h EXCEPT !.chatMessages =
                 Append(SliceLast(h.chatMessages, MirrorKeep), Dated(env.payload))]
      [] env.type = "MOOD_CHANGE" -> [h EXCEPT !.currentMood = env.payload.mood]
      [] OTHER -> h

ThrottledPerMilli(t, lastSend) == t - lastSend < PositionUpdateRate

\* now - lastPositionSend.current < 1000 / positionUpdateRate
Throttled(t, lastSend) == t - lastSend < 1000 \div PositionUpdateRate

\* sendPosition(position, rotation), t being its Date.now(): the hook it leaves
\* and the messages it hands to the socket.
sendPosition(h, position, rotation, t) ==
    IF Throttled(t, h.lastPositionSend)
    THEN [hook |-> h, out |-> <<>>]
    ELSE [hook |-> [h EXCEPT !.lastPositionSend = t],
          out |-> IF h.socket THEN <<MoveMsg(position, rotation)>> ELSE <<>>]

\* A step of a client leaves the hub as it is; last names the client's handler.
ClientStep(op, c, m) ==
    /\ last' = [op |-> op, conn |-> c, msg |-> m, threw |-> FALSE,
                had |-> c \in DOMAIN players, open |-> c \in conns]
    /\ sent' = NoSends
    /\ UNCHANGED <<conns, players, currentMood, chatHistory, joined, tap, log, commits, feed>>

\* The socket of client c hands the next envelope to the 'message' listener.
Receive(c) ==
    /\ c \in DOMAIN inbox
    /\ inbox[c] # <<>>
    /\ hook' = [hook EXCEPT ![c] = OnEnvelope(hook[c], Head(inbox[c]), now)]
    /\ inbox' = [inbox EXCEPT ![c] = Tail(inbox[c])]
    /\ UNCHANGED <<now, outbox, calls, partySocket, controls>>
    /\ ClientStep("message", c, NoMsg)

\* The frame loop of client c calls sendPosition when its clock reads t.
SendPosition(c, position, rotation, t) ==
    LET r == sendPosition(hook[c], position, rotation, t)
    IN  /\ c \in DOMAIN hook
        /\ t >= now
        /\ now' = t
        /\ hook' = [hook EXCEPT ![c] = r.hook]
        /\ outbox' = [outbox EXCEPT ![c] = outbox[c] \o [i \in 1..Len(r.out) |->
                                                            [at |-> t, msg |-> r.out[i]]]]
        /\ calls' = [calls EXCEPT ![c] = calls[c] + 1]
        /\ UNCHANGED <<inbox, partySocket, controls>>
        /\ ClientStep("sendPosition", c, MoveMsg(position, rotation))

----------------------------------------------------------------------------
(* The client's connection.  partySocket[c] is the PartySocket the effect   *)
(* of client c made: readyState, queue (messages send() was given while the *)
(* socket was not open and kept for its next opening), wire (messages on    *)
(* their way to the hub) and retries (attempts that failed in a row).       *)
(* controls[c] holds the refs of the Controls frame loop.                   *)

AgentName == "ann"
AgentAvatar == "robot"
AgentColor == "#ff0000"

NoSocket == [readyState |-> "none", queue |-> <<>>, wire |-> <<>>, retries |-> 0]

\* new PartySocket({ host, room }): it starts connecting.
NewSocket == [readyState |-> "connecting", queue |-> <<>>, wire |-> <<>>, retries |-> 0]

\* new THREE.Vector3(), useRef(0); recorded is history: a send was recorded.
NewControls == [lastSentPosition |-> <<"0", "0", "0">>, lastSendTime |-> 0, recorded |-> FALSE]

\* socket.send(m).  Open, the socket passes m on.  Not open, the call is one the
\* source does not guard: the socket keeps m for its next opening (kept) or
\* lets it go.
Send(s, m, kept) ==
    IF s.readyState = "open" THEN [s EXCEPT !.wire = Append(@, m)]
    ELSE IF kept THEN [s EXCEPT !.queue = Append(@, m)]
    ELSE s

\* socketRef.current?.send(m)
SendIfSocket(h, s, m, kept) == IF h.socket THEN Send(s, m, kept) ELSE s

\* The effect runs: the socket is made and kept in socketRef, the listeners
\* are added, the heartbeat interval is set.
Effect(h) == [hook |-> [h EXCEPT !.socket = TRUE, !.heartbeat = TRUE, !.effect = "run"],
              socket |-> NewSocket]

\* The socket opens as connection id: what it kept goes out, then the 'open'
\* listener runs.
OnOpen(h, s, id) ==
    [hook |-> [h EXCEPT !.isConnected = TRUE, !.connectionId = id],
     socket |-> [s EXCEPT !.readyState = "open", !.retries = 0, !.queue = <<>>,
                          !.wire = s.queue \o <<JoinMsg(AgentName, AgentAvatar, AgentColor)>>]]

\* The connection is lost: the 'close' listener runs and the socket, which was
\* given no retry options, goes on to connect again.
OnLost(h, s) ==
    [hook |-> [h EXCEPT !.isConnected = FALSE],
     socket |-> [s EXCEPT !.readyState = "connecting", !.wire = <<>>]]

\* An attempt to connect fails; the socket tries again.
OnFailed(h, s) == [hook |-> h, socket |-> [s EXCEPT !.retries = @ + 1]]

\* The heartbeat interval fires.
OnHeartbeat(h, s) ==
    [hook |-> h,
     socket |-> IF s.readyState = "open" THEN Send(s, PingMsg, FALSE) ELSE s]

CleanupLeavesSocket(h, s) ==
    [hook |-> [h EXCEPT !.heartbeat = FALSE, !.socket = FALSE, !.effect = "cleaned"],
     socket |-> s]

\* The effect's cleanup: clearInterval(heartbeat); socket.close();
\* socketRef.current = null.
Cleanup(h, s) ==
    [hook |-> [h EXCEPT !.heartbeat = FALSE, !.socket = FALSE, !.effect = "cleaned"],
     socket |-> [s EXCEPT !.readyState = "closed"]]

Whitespace == {"", " "}
Padded == (" hi " :> Str("hi", 2))

\* message.trim(), for the strings the model uses
Trim(text) ==
    IF text.body \in Whitespace THEN Str("", 0)
    ELSE IF text.body \in DOMAIN Padded THEN Padded[text.body]
    ELSE text

\* sendChat(message)
sendChat(h, s, message, kept) ==
    [hook |-> h,
     socket |-> IF Falsy(Trim(message)) THEN s
                ELSE SendIfSocket(h, s, ChatMsg(Trim(message)), kept)]

\* updateMood(mood)
updateMood(h, s, mood, kept) ==
    [hook |-> h, socket |-> SendIfSocket(h, s, MoodMsg(mood), kept)]

\* performance.now() when Date.now() reads t: the page was loaded at Epoch.
PerformanceNow(t) == t - Epoch

\* The position part of the Controls frame callback, the camera being at
\* position and turned by rotation: onMove is the hook's sendPosition.
useFrame(k, h, s, position, rotation, t, kept) ==
    IF PerformanceNow(t) - k.lastSendTime > ControlsInterval
       /\ position # k.lastSentPosition
    THEN LET r == sendPosition(h, position, rotation, t)
         IN  [controls |-> [lastSentPosition |-> position,
                            lastSendTime |-> PerformanceNow(t), recorded |-> TRUE],
              hook |-> r.hook,
              socket |-> IF r.out = <<>> THEN s ELSE Send(s, r.out[1], kept)]
    ELSE [controls |-> k, hook |-> h, socket |-> s]

\* A step of client c that leaves r of its hook and its socket.
Agent(op, c, m, r, t) ==
    /\ hook' = [hook EXCEPT ![c] = r.hook]
    /\ partySocket' = [partySocket EXCEPT ![c] = r.socket]
    /\ now' = t
    /\ UNCHANGED <<inbox, outbox, calls>>
    /\ ClientStep(op, c, m)

Mount(c) ==
    /\ hook[c].effect = "pending"
    /\ UNCHANGED controls
    /\ Agent("effect", c, NoMsg, Effect(hook[c]), now)

Open(c) ==
    /\ partySocket[c].readyState = "connecting"
    /\ c \in conns
    /\ UNCHANGED controls
    /\ Agent("open", c, NoMsg, OnOpen(hook[c], partySocket[c], c), now)

Lost(c) ==
    /\ partySocket[c].readyState = "open"
    /\ c \notin conns
    /\ UNCHANGED controls
    /\ Agent("close", c, NoMsg, OnLost(hook[c], partySocket[c]), now)

Failed(c) ==
    /\ partySocket[c].readyState = "connecting"
    /\ c \notin conns
    /\ UNCHANGED controls
    /\ Agent("retry", c, NoMsg, OnFailed(hook[c], partySocket[c]), now)

Heartbeat(c) ==
    /\ hook[c].heartbeat
    /\ UNCHANGED controls
    /\ Agent("heartbeat", c, PingMsg, OnHeartbeat(hook[c], partySocket[c]), now)

Unmount(c) ==
    /\ hook[c].effect = "run"
    /\ UNCHANGED controls
    /\ Agent("cleanup", c, NoMsg, Cleanup(hook[c], partySocket[c]), now)

SendChat(c, message, kept) ==
    /\ UNCHANGED controls
    /\ Agent("sendChat", c, ChatMsg(message),
             sendChat(hook[c], partySocket[c], message, kept), now)

SetMood(c, mood, kept) ==
    /\ UNCHANGED controls
    /\ Agent("updateMood", c, MoodMsg(mood),
             updateMood(hook[c], partySocket[c], mood, kept), now)

Frame(c, position, rotation, t, kept) ==
    LET r == useFrame(controls[c], hook[c], partySocket[c], position, rotation, t, kept)
    IN  /\ t >= now
        /\ controls' = [controls EXCEPT ![c] = r.controls]
        /\ Agent("useFrame", c, MoveMsg(position, rotation), r, t)

\* The hub takes the next message of client c off the wire.
Deliver(c, t) ==
    /\ partySocket[c].wire # <<>>
    /\ partySocket' = [partySocket EXCEPT ![c].wire = Tail(@)]
    /\ Handle(c, Head(partySocket[c].wire), <<t, t, t>>)

----------------------------------------------------------------------------
(* Spec: every interleaving of NConn connections, well-formed messages,     *)
(* all within one clock reading.                                            *)

Conn == 1..NConn
Names == {"ann"}
Positions == {<<"2", "1.6", "3">>}
Rotations == {"0.5"}
Moods == {"joyful"}
Texts == {Str("hi", 2), Str("", 0), Str("lorem", MaxTextLength + 1)}

Next ==
    \/ \E c \in Conn : Connect(c, now)
    \/ \E c \in Conn, n \in Names : Join(c, n, "robot", "#ff0000", now)
    \/ \E c \in Conn, p \in Positions, r \in Rotations : Move(c, p, r, now)
    \/ \E c \in Conn, x \in Texts :
          Len(chatHistory) < MaxLog /\ Chat(c, x, <<now, now, now>>)
    \/ \E c \in Conn, md \in Moods : UpdateMood(c, md, now)
    \/ \E c \in Conn : Ping(c, now)
    \/ \E c \in Conn : Close(c, now)

Spec == Init /\ [][Next]_vars

----------------------------------------------------------------------------
(* SpecRoom: a room that fills up.  There is one connection more than the   *)
(* room admits (Spare).  The first ones arrive one after the other and      *)
(* stay; the last Lively ones come, move, chat (one message is stored) and  *)
(* go in every order.                                                       *)

RoomConn == 1..(MaxPlayers + Spare)
LivelyConn == {c \in RoomConn : c > MaxPlayers + Spare - Lively}
StaidConn == RoomConn \ LivelyConn

\* A staid connection arrives once those before it have joined.
MayArrive(c) == c \in StaidConn => \A d \in StaidConn : d < c => d \in DOMAIN players

NextRoom ==
    \/ \E c \in RoomConn : MayArrive(c) /\ Connect(c, now)
    \/ \E c \in RoomConn, n \in Names : Join(c, n, "robot", "#ff0000", now)
    \/ \E c \in LivelyConn, p \in Positions, r \in Rotations : Move(c, p, r, now)
    \/ \E c \in LivelyConn :
          chatHistory = <<>> /\ Chat(c, Str("hi", 2), <<now, now, now>>)
    \/ \E c \in LivelyConn, md \in Moods : UpdateMood(c, md, now)
    \/ \E c \in LivelyConn : Ping(c, now)
    \/ \E c \in LivelyConn : Close(c, now)

SpecRoom == Init /\ [][NextRoom]_vars

----------------------------------------------------------------------------
(* SpecChat: a long conversation.  Connection 1 joins and chats, one        *)
(* message per clock reading; the others listen, move, change the mood and  *)
(* come and go.                                                             *)

TalkerConn == {1}
ChatConn == 1..(1 + Listeners)
ListenerConn == ChatConn \ TalkerConn

NextChat ==
    \/ \E c \in ChatConn : Connect(c, now)
    \/ \E c \in ChatConn, n \in Names : Join(c, n, "robot", "#ff0000", now)
    \/ \E c \in TalkerConn :
          /\ c \in DOMAIN players
          /\ now < MaxChatHistory + Over
          /\ Chat(c, Str("hi", 2), <<now + 1, now + 1, now + 1>>)
    \/ \E c \in ListenerConn, p \in Positions, r \in Rotations : Move(c, p, r, now)
    \/ \E c \in ListenerConn, md \in Moods : UpdateMood(c, md, now)
    \/ \E c \in ListenerConn : Ping(c, now)
    \/ \E c \in ListenerConn : Close(c, now)

SpecChat == Init /\ [][NextChat]_vars

----------------------------------------------------------------------------
(* SpecOrder: the streams of all connections are recorded, for MaxCommits   *)
(* broadcasts.                                                              *)

OrderConn == 1..NOrder

InitOrder ==
    /\ conns = {}
    /\ players = NoPlayers
    /\ currentMood = "neutral"
    /\ chatHistory = <<>>
    /\ now = 0
    /\ sent = NoSends
    /\ last = [op |-> "none", conn |-> 0, msg |-> NoMsg, threw |-> FALSE, had |-> FALSE,
             open |-> FALSE]
    /\ joined = {}
    /\ tap = OrderConn
    /\ log = [c \in OrderConn |-> <<>>]
    /\ commits = 0
    /\ hook = <<>>
    /\ inbox = <<>>
    /\ outbox = <<>>
    /\ calls = <<>>
    /\ partySocket = <<>>
    /\ controls = <<>>
    /\ feed = NoFeed

MayCommit == commits < MaxCommits
OrderMoods == {"joyful", "calm"}

NextOrder ==
    \/ \E c \in OrderConn : Connect(c, now)
    \/ \E c \in OrderConn, n \in Names : MayCommit /\ Join(c, n, "robot", "#ff0000", now)
    \/ \E c \in OrderConn, p \in Positions, r \in Rotations : MayCommit /\ Move(c, p, r, now)
    \/ \E c \in OrderConn : MayCommit /\ Chat(c, Str("hi", 2), <<now, now, now>>)
    \/ \E c \in OrderConn, md \in OrderMoods : MayCommit /\ UpdateMood(c, md, now)
    \/ \E c \in OrderConn : MayCommit /\ Close(c, now)

SpecOrder == InitOrder /\ [][NextOrder]_vars

----------------------------------------------------------------------------
(* SpecParse: messages outside the protocol's closed set.                   *)

ParseConn == 1..NParse

Malformed ==
    { NotJson, JsonNull, JsonScalar,
      Object("DANCE", TRUE, NoPayload),
      Object(undefined, TRUE, NoPayload),
      Object("JOIN", FALSE, NoPayload),
      Object("MOVE", FALSE, NoPayload),
      Object("CHAT", FALSE, NoPayload),
      Object("UPDATE_MOOD", FALSE, NoPayload),
      Object("PING", FALSE, NoPayload),
      JoinMsg(undefined, undefined, undefined),
      MoveMsg(undefinedVec, undefined),
      ChatMsg(undefinedText),
      ChatMsg(numberText),
      MoodMsg(undefined) }

NextParse ==
    \/ \E c \in ParseConn : Connect(c, now)
    \/ \E c \in ParseConn, n \in Names : Join(c, n, "robot", "#ff0000", now)
    \/ \E c \in ParseConn, m \in Malformed :
          chatHistory = <<>> /\ Message(c, m, <<now, now, now>>)
    \/ \E c \in ParseConn : Close(c, now)

SpecParse == Init /\ [][NextParse]_vars

----------------------------------------------------------------------------
(* SpecEdge: the edges of the handlers.  Chat texts are empty, of the       *)
(* greatest length the hub stores and one character longer; players and     *)
(* others send PING; a close event may come again for a connection that is  *)
(* closed already.                                                          *)

EdgeConn == 1..NEdge
EdgeTexts == {Str("", 0), Str("max", MaxTextLength), Str("over", MaxTextLength + 1)}

NextEdge ==
    \/ \E c \in EdgeConn : Connect(c, now)
    \/ \E c \in EdgeConn, n \in Names : Join(c, n, "robot", "#ff0000", now)
    \/ \E c \in EdgeConn, x \in EdgeTexts :
          Len(chatHistory) < EdgeLog /\ Chat(c, x, <<now, now, now>>)
    \/ \E c \in EdgeConn : Ping(c, now)
    \/ \E c \in EdgeConn : Close(c, now)
    \/ \E c \in EdgeConn : Reclose(c, now)

SpecEdge == Init /\ [][NextEdge]_vars

----------------------------------------------------------------------------
(* SpecThrottle: one client's frame loop.  Frames follow one another after  *)
(* MinFrame to MaxFrame milliseconds, or after exactly the time the         *)
(* throttle asks for; every frame calls sendPosition.  The hub is idle.     *)

ThrottleConn == {1}
FrameGaps == (MinFrame..MaxFrame) \cup {1000 \div PositionUpdateRate}

InitThrottle ==
    /\ conns = {}
    /\ players = NoPlayers
    /\ currentMood = "neutral"
    /\ chatHistory = <<>>
    /\ now = Epoch
    /\ sent = NoSends
    /\ last = [op |-> "none", conn |-> 0, msg |-> NoMsg, threw |-> FALSE, had |-> FALSE,
               open |-> FALSE]
    /\ joined = {}
    /\ tap = {}
    /\ log = <<>>
    /\ commits = 0
    /\ hook = [c \in ThrottleConn |-> NewHook(TRUE)]
    /\ inbox = [c \in ThrottleConn |-> <<>>]
    /\ outbox = [c \in ThrottleConn |-> <<>>]
    /\ calls = [c \in ThrottleConn |-> 0]
    /\ partySocket = <<>>
    /\ controls = <<>>
    /\ feed = NoFeed

NextThrottle ==
    \E c \in ThrottleConn, p \in Positions, r \in Rotations, g \in FrameGaps :
        /\ now + g <= Epoch + Horizon
        /\ SendPosition(c, p, r, now + g)

SpecThrottle == InitThrottle /\ [][NextThrottle]_vars

----------------------------------------------------------------------------
(* SpecMirror: a client and its mirror.  Connection 1 is a client whose     *)
(* 'message' listener takes what the hub sends it, one envelope at a time   *)
(* and at any later moment; it connects, joins, leaves and comes back.  The *)
(* other connections also move, chat and set the mood, once with an         *)
(* UPDATE_MOOD whose payload names no mood.                                 *)

MirrorConn == {1}
PeerConn == (1..NMirror) \ MirrorConn
MirrorMoods == Moods \cup {undefined}

InitMirror ==
    /\ conns = {}
    /\ players = NoPlayers
    /\ currentMood = "neutral"
    /\ chatHistory = <<>>
    /\ now = 0
    /\ sent = NoSends
    /\ last = [op |-> "none", conn |-> 0, msg |-> NoMsg, threw |-> FALSE, had |-> FALSE,
               open |-> FALSE]
    /\ joined = {}
    /\ tap = {}
    /\ log = <<>>
    /\ commits = 0
    /\ hook = [c \in MirrorConn |-> NewHook(TRUE)]
    /\ inbox = [c \in MirrorConn |-> <<>>]
    /\ outbox = [c \in MirrorConn |-> <<>>]
    /\ calls = [c \in MirrorConn |-> 0]
    /\ partySocket = <<>>
    /\ controls = <<>>
    /\ feed = NoFeed

\* The hub handles its next event once the clients have fallen behind by
\* fewer than MaxInbox envelopes.
MayRun == \A c \in DOMAIN inbox : Len(inbox[c]) < MaxInbox

NextMirror ==
    \/ \E c \in 1..NMirror : MayRun /\ Connect(c, now)
    \/ \E c \in 1..NMirror, n \in Names : MayRun /\ Join(c, n, "robot", "#ff0000", now)
    \/ \E c \in PeerConn, p \in Positions, r \in Rotations : MayRun /\ Move(c, p, r, now)
    \/ \E c \in PeerConn :
          MayRun /\ chatHistory = <<>> /\ Chat(c, Str("hi", 2), <<now, now, now>>)
    \/ \E c \in PeerConn, md \in MirrorMoods : MayRun /\ UpdateMood(c, md, now)
    \/ \E c \in 1..NMirror : MayRun /\ Close(c, now)
    \/ \E c \in MirrorConn : Receive(c)

SpecMirror == InitMirror /\ [][NextMirror]_vars

----------------------------------------------------------------------------
(* SpecSelf: SpecMirror without the chat and the mood, which neither the    *)
(* hub nor the listener lets touch a players map: the clients come, join,   *)
(* move and go, and connection 1 mirrors them.                              *)

NextSelf ==
    \/ \E c \in 1..NMirror : MayRun /\ Connect(c, now)
    \/ \E c \in 1..NMirror, n \in Names : MayRun /\ Join(c, n, "robot", "#ff0000", now)
    \/ \E c \in PeerConn, p \in Positions, r \in Rotations : MayRun /\ Move(c, p, r, now)
    \/ \E c \in 1..NMirror : MayRun /\ Close(c, now)
    \/ \E c \in MirrorConn : Receive(c)

SpecSelf == InitMirror /\ [][NextSelf]_vars

----------------------------------------------------------------------------
(* SpecCrowd: a client at the door of a room that fills up.  Connections    *)
(* 1..MaxPlayers arrive one after the other, join and stay; the connection  *)
(* after them is a client that connects, sends JOIN, leaves and comes back  *)
(* at any moment, and whose listener takes what the hub sends it.           *)

CrowdConn == 1..MaxPlayers
CrowdClient == {MaxPlayers + 1}

InitCrowd ==
    /\ conns = {}
    /\ players = NoPlayers
    /\ currentMood = "neutral"
    /\ chatHistory = <<>>
    /\ now = 0
    /\ sent = NoSends
    /\ last = [op |-> "none", conn |-> 0, msg |-> NoMsg, threw |-> FALSE, had |-> FALSE,
               open |-> FALSE]
    /\ joined = {}
    /\ tap = {}
    /\ log = <<>>
    /\ commits = 0
    /\ hook = [c \in CrowdClient |-> NewHook(TRUE)]
    /\ inbox = [c \in CrowdClient |-> <<>>]
    /\ outbox = [c \in CrowdClient |-> <<>>]
    /\ calls = [c \in CrowdClient |-> 0]
    /\ partySocket = <<>>
    /\ controls = <<>>
    /\ feed = NoFeed

\* A connection of the crowd arrives once those before it have joined.
MayCrowd(c) == \A d \in CrowdConn : d < c => d \in DOMAIN players

NextCrowd ==
    \/ \E c \in CrowdConn : MayRun /\ MayCrowd(c) /\ Connect(c, now)
    \/ \E c \in CrowdConn, n \in Names :
          MayRun /\ c \notin DOMAIN players /\ Join(c, n, "robot", "#ff0000", now)
    \/ \E c \in CrowdClient : MayRun /\ Connect(c, now)
    \/ \E c \in CrowdClient, n \in Names : MayRun /\ Join(c, n, "robot", "#ff0000", now)
    \/ \E c \in CrowdClient : MayRun /\ Close(c, now)
    \/ \E c \in CrowdClient : Receive(c)

SpecCrowd == InitCrowd /\ [][NextCrowd]_vars

----------------------------------------------------------------------------
(* SpecFeed: a long conversation.  Connection 1 is a client whose listener  *)
(* takes what the hub sends it; connection 2 chats, the clock moving on     *)
(* with every accepted message, until FeedLen messages were accepted; the   *)
(* client leaves and comes back at any moment.                              *)

FeedConn == 1..2
FeedClient == {1}
FeedTexts == {Str("hi", 2), Str("", 0)}

InitFeed ==
    /\ conns = {}
    /\ players = NoPlayers
    /\ currentMood = "neutral"
    /\ chatHistory = <<>>
    /\ now = 0
    /\ sent = NoSends
    /\ last = [op |-> "none", conn |-> 0, msg |-> NoMsg, threw |-> FALSE, had |-> FALSE,
               open |-> FALSE]
    /\ joined = {}
    /\ tap = {}
    /\ log = <<>>
    /\ commits = 0
    /\ hook = [c \in FeedClient |-> NewHook(TRUE)]
    /\ inbox = [c \in FeedClient |-> <<>>]
    /\ outbox = [c \in FeedClient |-> <<>>]
    /\ calls = [c \in FeedClient |-> 0]
    /\ partySocket = <<>>
    /\ controls = <<>>
    /\ feed = [on |-> TRUE, all |-> <<>>]

NextFeed ==
    \/ \E c \in FeedConn : MayRun /\ Connect(c, now)
    \/ \E c \in FeedConn \ FeedClient, text \in FeedTexts :
          /\ MayRun
          /\ Len(feed.all) < FeedLen
          /\ LET t == IF Falsy(text) THEN now ELSE now + 1
             IN  Chat(c, text, <<t, t, t>>)
    \/ \E c \in FeedClient : MayRun /\ Close(c, now)
    \/ \E c \in FeedClient : Receive(c)

SpecFeed == InitFeed /\ [][NextFeed]_vars

----------------------------------------------------------------------------
(* SpecAgent: the life of a client.  Client 1 mounts, connects, opens,      *)
(* takes what the hub sends it, beats, chats, sets the mood and walks; it   *)
(* loses its connection and connects again, its attempts failing up to      *)
(* Attempts times in a row, and is unmounted at any moment.  The hub takes  *)
(* its messages off the wire one at a time.  The clock starts at Epoch and  *)
(* moves on between frames.                                                 *)

AgentConn == {1}
AgentTexts == {Str("hi", 2), Str(" hi ", 4), Str(" ", 1)}
AgentPositions == Positions
FrameSteps == {0, ControlsInterval + 1}

InitAgent ==
    /\ conns = {}
    /\ players = NoPlayers
    /\ currentMood = "neutral"
    /\ chatHistory = <<>>
    /\ now = Epoch
    /\ sent = NoSends
    /\ last = [op |-> "none", conn |-> 0, msg |-> NoMsg, threw |-> FALSE, had |-> FALSE,
               open |-> FALSE]
    /\ joined = {}
    /\ tap = {}
    /\ log = <<>>
    /\ commits = 0
    /\ hook = [c \in AgentConn |-> NewHook(FALSE)]
    /\ inbox = [c \in AgentConn |-> <<>>]
    /\ outbox = <<>>
    /\ calls = <<>>
    /\ partySocket = [c \in AgentConn |-> NoSocket]
    /\ controls = [c \in AgentConn |-> NewControls]
    /\ feed = NoFeed

Pending(c) == partySocket[c].queue \o partySocket[c].wire

\* The client makes its next call once fewer than MaxWire messages wait.
MayCall(c) == Len(Pending(c)) < MaxWire

\* One chat message is enough.
MayChat(c) ==
    /\ chatHistory = <<>>
    /\ \A i \in 1..Len(Pending(c)) : Pending(c)[i].type # "CHAT"

NextAgent ==
    \/ \E c \in AgentConn : Mount(c)
    \/ \E c \in AgentConn : partySocket[c].readyState = "connecting" /\ Connect(c, now)
    \/ \E c \in AgentConn : Open(c)
    \/ \E c \in AgentConn : partySocket[c].retries < Attempts /\ Failed(c)
    \/ \E c \in AgentConn : partySocket[c].readyState = "open" /\ Receive(c)
    \/ \E c \in AgentConn : MayCall(c) /\ Heartbeat(c)
    \/ \E c \in AgentConn, text \in AgentTexts, kept \in BOOLEAN :
          MayCall(c) /\ MayChat(c) /\ SendChat(c, text, kept)
    \/ \E c \in AgentConn, mood \in Moods, kept \in BOOLEAN :
          MayCall(c) /\ SetMood(c, mood, kept)
    \/ \E c \in AgentConn, p \in AgentPositions, r \in Rotations, g \in FrameSteps,
          kept \in BOOLEAN :
          /\ MayCall(c)
          /\ now + g <= Epoch + Horizon
          /\ Frame(c, p, r, now + g, kept)
    \/ \E c \in AgentConn : MayRun /\ Deliver(c, now)
    \/ \E c \in AgentConn : Close(c, now)
    \/ \E c \in AgentConn : Lost(c)
    \/ \E c \in AgentConn : Unmount(c)

SpecAgent == InitAgent /\ [][NextAgent]_vars

----------------------------------------------------------------------------
(* Properties *)

IsMessage(l, type) == l.op = "onMessage" /\ l.msg.json = "object" /\ l.msg.type = type

RoomUnchanged ==
    /\ players' = players
    /\ currentMood' = currentMood
    /\ chatHistory' = chatHistory

\* The step sent exactly one envelope, of the given type, to c.
OneEnvelope(out, c, type) == c \in DOMAIN out /\ Len(out[c]) = 1 /\ out[c][1].type = type

\* C1: in every reachable state of a room, whatever connect, JOIN, MOVE, CHAT,
\* UPDATE_MOOD, PING and close events were handled, players has at most 8 entries.
C1_AtMostEightPlayers == Cardinality(DOMAIN players) <= MaxPlayers

\* A full room has just turned away the JOIN of a connection that is not a player.
C1_Witness ==
    /\ Cardinality(DOMAIN players) = MaxPlayers
    /\ IsMessage(last, "JOIN")
    /\ ~last.had
    /\ last.conn \in conns \ DOMAIN players

\* C2: a JOIN handled while players holds 8 entries sends exactly one ERROR to the
\* sender, nothing to any other connection, and leaves players, currentMood and
\* chatHistory unchanged.
C2_FullRoomRejects ==
    [][ (IsMessage(last', "JOIN") /\ Cardinality(DOMAIN players) >= MaxPlayers)
        => /\ DOMAIN sent' = {last'.conn}
           /\ OneEnvelope(sent', last'.conn, "ERROR")
           /\ RoomUnchanged ]_vars

\* A player of a full room has sent JOIN again and got the ERROR, with more
\* connections open than the room has players.
C2_Witness ==
    /\ IsMessage(last, "JOIN")
    /\ last.had
    /\ OneEnvelope(sent, last.conn, "ERROR")
    /\ Cardinality(conns) > MaxPlayers

\* C3: chatHistory never holds more than 50 messages; an accepted CHAT appended to a
\* history of 50 removes the oldest message, puts the new one last and keeps the
\* other 49 in their order.
C3_ChatHistoryBounded ==
    /\ [](Len(chatHistory) <= MaxChatHistory)
    /\ [][ ( /\ IsMessage(last', "CHAT")
             /\ last'.msg.payload.text.kind = "string"
             /\ last'.msg.payload.text.length \in 1..MaxTextLength
             /\ Len(chatHistory) = MaxChatHistory )
           => /\ Len(chatHistory') = MaxChatHistory
              /\ chatHistory'[MaxChatHistory].text = last'.msg.payload.text
              /\ chatHistory'[MaxChatHistory].senderId = last'.conn
              /\ \A i \in 1..(MaxChatHistory - 1) : chatHistory'[i] = chatHistory[i + 1]
              /\ \A i \in 1..MaxChatHistory : chatHistory'[i] # chatHistory[1] ]_vars

\* The history is full and its first message is no longer the first one sent.
C3_Witness ==
    /\ IsMessage(last, "CHAT")
    /\ Len(chatHistory) = MaxChatHistory
    /\ now > MaxChatHistory
    /\ chatHistory[1].timestamp = now - MaxChatHistory + 1
    /\ chatHistory[MaxChatHistory].timestamp = now

\* C4: a MOVE from a connection with no entry in players creates no PlayerState,
\* changes nothing of the room state and sends nothing to anyone.
C4_MoveOfNonPlayerIgnored ==
    [][ (IsMessage(last', "MOVE") /\ last'.conn \notin DOMAIN players)
        => /\ RoomUnchanged
           /\ sent' = NoSends ]_vars

\* A connection that is no player has sent MOVE while another one, a player, was open.
C4_Witness ==
    /\ IsMessage(last, "MOVE")
    /\ ~last.had
    /\ last.conn \in conns
    /\ \E d \in DOMAIN players : d # last.conn /\ d \in conns

\* C5: when a joined connection closes, exactly its entry leaves players (the other
\* entries, currentMood and chatHistory unchanged) and every remaining open
\* connection is sent exactly one PLAYER_LEFT with that connection's id.
C5_CloseRemovesAndTells ==
    [][ (last'.op = "onClose" /\ last'.conn \in DOMAIN players)
        => /\ DOMAIN players' = DOMAIN players \ {last'.conn}
           /\ \A k \in DOMAIN players' : players'[k] = players[k]
           /\ currentMood' = currentMood
           /\ chatHistory' = chatHistory
           /\ DOMAIN sent' = conns'
           /\ \A d \in conns' :
                 /\ OneEnvelope(sent', d, "PLAYER_LEFT")
                 /\ sent'[d][1].payload.id = last'.conn ]_vars

\* A player has left while a player and a connection that never joined were open.
C5_Witness ==
    /\ last.op = "onClose"
    /\ last.had
    /\ \E d \in conns : d \in DOMAIN players
    /\ \E d \in conns : d \notin DOMAIN players

C7_MalformedDropped ==
    [][ (last'.op = "onMessage" /\ ~WellFormed(last'.msg))
        => /\ ~last'.threw
           /\ sent' = NoSends
           /\ RoomUnchanged ]_vars

\* C8: a connection id is a key of players exactly if the connection is open and
\* its JOIN was accepted, also across a close and a reconnect of the same id.
C8_PlayersAreOpenAndJoined == DOMAIN players = conns \cap joined

\* A connection that chatted as a player is open again without a PlayerState,
\* beside a connection that is a player: it left and came back.
C8_Witness ==
    \E c \in conns :
        /\ c \notin DOMAIN players
        /\ last.op = "onConnect" /\ last.conn = c
        /\ \E i \in 1..Len(chatHistory) :
              chatHistory[i].senderId = c /\ chatHistory[i].senderName # "Unknown"
        /\ \E d \in conns : d \in DOMAIN players

\* C9 (as claimed): every broadcast envelope is sent in a step that committed its
\* mutation; in particular PLAYER_LEFT {id} only when id's entry left players in
\* that step.
C9_BroadcastsFollowMutations ==
    [][ \A d \in DOMAIN sent' : \A i \in 1..Len(sent'[d]) :
          LET e == sent'[d][i] IN
          /\ e.type = "PLAYER_LEFT" =>
                e.payload.id \in DOMAIN players /\ e.payload.id \notin DOMAIN players'
          /\ e.type = "PLAYER_JOINED" =>
                e.payload.id \in DOMAIN players' /\ players'[e.payload.id] = e.payload
          /\ e.type = "PLAYER_MOVED" =>
                /\ e.payload.id \in DOMAIN players'
                /\ players'[e.payload.id].position = e.payload.position
                /\ players'[e.payload.id].rotation = e.payload.rotation
          /\ e.type = "CHAT_MESSAGE" =>
                /\ Len(chatHistory') >= 1
                /\ chatHistory'[Len(chatHistory')] = e.payload
          /\ e.type = "MOOD_CHANGE" => currentMood' = e.payload.mood ]_vars

\* C10 (as claimed): a CHAT of a connection that never joined is ignored:
\* chatHistory unchanged, no CHAT_MESSAGE sent.
C10_ChatOfNonPlayerIgnored ==
    [][ (IsMessage(last', "CHAT") /\ last'.conn \notin joined)
        => /\ chatHistory' = chatHistory
           /\ \A d \in DOMAIN sent' : \A i \in 1..Len(sent'[d]) :
                 sent'[d][i].type # "CHAT_MESSAGE" ]_vars

\* C11: a CHAT of a joined connection with a text of 1 to 500 characters appends
\* exactly one message to chatHistory, with that connection as senderId and the
\* text as sent, and every open connection, the sender too, is sent exactly one
\* CHAT_MESSAGE carrying the stored message.
C11_ChatStoredAndToldToAll ==
    [][ ( /\ IsMessage(last', "CHAT")
          /\ last'.conn \in DOMAIN players
          /\ last'.msg.payload.text.kind = "string"
          /\ last'.msg.payload.text.length \in 1..MaxTextLength )
        => /\ Len(chatHistory') >= 1
           /\ LET stored == chatHistory'[Len(chatHistory')] IN
               /\ stored.senderId = last'.conn
               /\ stored.text = last'.msg.payload.text
               /\ chatHistory' = SliceLast(Append(chatHistory, stored), MaxChatHistory)
               /\ DOMAIN sent' = conns'
               /\ \A d \in conns' :
                     /\ OneEnvelope(sent', d, "CHAT_MESSAGE")
                     /\ sent'[d][1].payload = stored ]_vars

\* A player has chatted into a history that already held messages, with a
\* listener open: both were sent the CHAT_MESSAGE.
C11_Witness ==
    /\ IsMessage(last, "CHAT")
    /\ last.had
    /\ Len(chatHistory) >= 2
    /\ OneEnvelope(sent, last.conn, "CHAT_MESSAGE")
    /\ \E d \in conns : d # last.conn /\ OneEnvelope(sent, d, "CHAT_MESSAGE")

\* C12: currentMood is the mood of the UPDATE_MOOD handled last, whoever sent it:
\* every UPDATE_MOOD sets it and no other event changes it.  Every UPDATE_MOOD,
\* also one that repeats the mood in force, is a broadcast of its own: each open
\* connection, the sender too, is sent exactly one MOOD_CHANGE with that mood, so
\* two UPDATE_MOOD in a row with one mood make two MOOD_CHANGE per connection.
C12_MoodIsLastWritten ==
    [][ /\ (IsMessage(last', "UPDATE_MOOD") /\ WellFormed(last'.msg))
           => /\ currentMood' = last'.msg.payload.mood
              /\ DOMAIN sent' = conns'
              /\ \A d \in conns' :
                    /\ OneEnvelope(sent', d, "MOOD_CHANGE")
                    /\ sent'[d][1].payload.mood = last'.msg.payload.mood
                    /\ Len(log'[d]) = Len(log[d]) + 1
                    /\ log'[d][Len(log'[d])].env = sent'[d][1]
        /\ ~IsMessage(last', "UPDATE_MOOD") => currentMood' = currentMood ]_vars

\* Every connection is open and has been sent, last of all, a MOOD_CHANGE with
\* one mood and then two in a row with another; currentMood is the repeated one.
C12_Witness ==
    /\ IsMessage(last, "UPDATE_MOOD")
    /\ currentMood = last.msg.payload.mood
    /\ \A c \in DOMAIN log :
          /\ c \in conns
          /\ Len(log[c]) >= 3
          /\ LET n == Len(log[c]) IN
              /\ log[c][n].env.type = "MOOD_CHANGE"
              /\ log[c][n - 1].env.type = "MOOD_CHANGE"
              /\ log[c][n - 2].env.type = "MOOD_CHANGE"
              /\ log[c][n].env.payload.mood = currentMood
              /\ log[c][n - 1].env.payload.mood = currentMood
              /\ log[c][n - 2].env.payload.mood # currentMood
              /\ log[c][n - 1].seq < log[c][n].seq

\* C13: when a connection opens, the hub sends exactly one INIT, to that
\* connection and to no other; it carries players and currentMood as they are
\* and the last min(20, Len(chatHistory)) messages of chatHistory in their stored
\* order; players, currentMood and chatHistory stay as they were.
C13_ConnectSendsInit ==
    [][ last'.op = "onConnect"
        => /\ DOMAIN sent' = {last'.conn}
           /\ OneEnvelope(sent', last'.conn, "INIT")
           /\ LET init == sent'[last'.conn][1].payload
                   n == IF Len(chatHistory) < InitChatCount
                        THEN Len(chatHistory) ELSE InitChatCount
               IN  /\ init.players = players
                   /\ init.currentMood = currentMood
                   /\ Len(init.chatHistory) = n
                   /\ \A i \in 1..n :
                         init.chatHistory[i] = chatHistory[Len(chatHistory) - n + i]
           /\ RoomUnchanged ]_vars

\* A connection has opened on a room with a player, a changed mood and more
\* than 20 stored messages; its INIT holds 20 of them.
C13_Witness ==
    /\ last.op = "onConnect"
    /\ Len(chatHistory) > InitChatCount
    /\ currentMood # "neutral"
    /\ \E d \in DOMAIN players : d # last.conn
    /\ OneEnvelope(sent, last.conn, "INIT")
    /\ Len(sent[last.conn][1].payload.chatHistory) = InitChatCount

\* C14: a JOIN handled while players holds fewer than 8 entries puts a PlayerState
\* under the sender's id, at position [0, 1.6, 5], rotation 0, isActive true
\* (the other entries stay), and sends exactly one PLAYER_JOINED carrying that
\* PlayerState to every open connection but the sender, who is sent nothing.
C14_JoinInsertsAndTellsOthers ==
    [][ ( /\ IsMessage(last', "JOIN")
          /\ WellFormed(last'.msg)
          /\ Cardinality(DOMAIN players) < MaxPlayers )
        => /\ DOMAIN players' = DOMAIN players \cup {last'.conn}
           /\ \A k \in DOMAIN players \ {last'.conn} : players'[k] = players[k]
           /\ players'[last'.conn].id = last'.conn
           /\ players'[last'.conn].name = last'.msg.payload.name
           /\ players'[last'.conn].position = <<"0", "1.6", "5">>
           /\ players'[last'.conn].rotation = "0"
           /\ players'[last'.conn].isActive = TRUE
           /\ DOMAIN sent' = conns' \ {last'.conn}
           /\ \A d \in conns' \ {last'.conn} :
                 /\ OneEnvelope(sent', d, "PLAYER_JOINED")
                 /\ sent'[d][1].payload = players'[last'.conn] ]_vars

\* A connection has joined as the eighth player, beside a player that had
\* moved; two other connections were sent the PLAYER_JOINED, the sender nothing.
C14_Witness ==
    /\ IsMessage(last, "JOIN")
    /\ ~last.had
    /\ Cardinality(DOMAIN players) = MaxPlayers
    /\ last.conn \in DOMAIN players
    /\ players[last.conn].position = SpawnPosition
    /\ last.conn \notin DOMAIN sent
    /\ \E d \in DOMAIN players : players[d].position # SpawnPosition
    /\ \E d, e \in conns :
          /\ d # e
          /\ OneEnvelope(sent, d, "PLAYER_JOINED")
          /\ OneEnvelope(sent, e, "PLAYER_JOINED")

\* C15 (as claimed): a MOVE of a joined connection overwrites that player's
\* position and rotation, sets its isActive and refreshes its lastActive, leaves
\* the rest of that PlayerState, every other player, currentMood and chatHistory
\* as they were, and sends exactly one PLAYER_MOVED {id, position, rotation} to
\* every open connection but the sender.
C15_MoveOverwritesAndRefreshes ==
    [][ ( /\ IsMessage(last', "MOVE")
          /\ WellFormed(last'.msg)
          /\ last'.conn \in DOMAIN players )
        => /\ DOMAIN players' = DOMAIN players
           /\ \A k \in DOMAIN players \ {last'.conn} : players'[k] = players[k]
           /\ players'[last'.conn].position = last'.msg.payload.position
           /\ players'[last'.conn].rotation = last'.msg.payload.rotation
           /\ players'[last'.conn].isActive = TRUE
           /\ players'[last'.conn].id = players[last'.conn].id
           /\ players'[last'.conn].name = players[last'.conn].name
           /\ players'[last'.conn].avatar = players[last'.conn].avatar
           /\ players'[last'.conn].avatarColor = players[last'.conn].avatarColor
           /\ currentMood' = currentMood
           /\ chatHistory' = chatHistory
           /\ DOMAIN sent' = conns' \ {last'.conn}
           /\ \A d \in conns' \ {last'.conn} :
                 /\ OneEnvelope(sent', d, "PLAYER_MOVED")
                 /\ sent'[d][1].payload =
                       [id |-> last'.conn,
                        position |-> last'.msg.payload.position,
                        rotation |-> last'.msg.payload.rotation]
           /\ "lastActive" \in DOMAIN players'[last'.conn]
           /\ players'[last'.conn].lastActive = now' ]_vars

\* C16: a CHAT whose text is empty or longer than 500 characters is dropped in
\* silence: chatHistory (and the rest of the room state) unchanged, nothing sent
\* to anyone, the sender included.  A text of exactly 500 characters from a
\* player is stored and broadcast.
C16_ChatLengthEdges ==
    [][ (IsMessage(last', "CHAT") /\ last'.msg.payload.text.kind = "string")
        => LET text == last'.msg.payload.text IN
           /\ (text.length = 0 \/ text.length > MaxTextLength)
                 => /\ RoomUnchanged
                    /\ sent' = NoSends
                    /\ ~last'.threw
           /\ (text.length = MaxTextLength /\ last'.conn \in DOMAIN players)
                 => /\ Len(chatHistory') = Len(chatHistory) + 1
                    /\ chatHistory'[Len(chatHistory')].text = text
                    /\ \A d \in conns' : OneEnvelope(sent', d, "CHAT_MESSAGE") ]_vars

\* A text of 500 characters of a player is stored, and the same player's text of
\* 501 characters has just been dropped.
C16_Witness ==
    /\ IsMessage(last, "CHAT")
    /\ last.had
    /\ last.msg.payload.text.length = MaxTextLength + 1
    /\ sent = NoSends
    /\ Len(chatHistory) = 1
    /\ chatHistory[1].text.length = MaxTextLength
    /\ chatHistory[1].senderId = last.conn
    /\ chatHistory[1].senderName # "Unknown"

\* C17: a PING of any open connection, player or not, is answered by exactly one
\* PONG sent to that connection; no other connection is sent anything and
\* players, currentMood and chatHistory stay as they were.
C17_PingAnsweredToSenderOnly ==
    [][ IsMessage(last', "PING")
        => /\ DOMAIN sent' = {last'.conn}
           /\ OneEnvelope(sent', last'.conn, "PONG")
           /\ ~last'.threw
           /\ RoomUnchanged ]_vars

\* A connection that is no player has been sent the PONG for its PING while a
\* player was open and was sent nothing.
C17_Witness ==
    /\ IsMessage(last, "PING")
    /\ ~last.had
    /\ OneEnvelope(sent, last.conn, "PONG")
    /\ \E d \in conns : d \in DOMAIN players /\ d \notin DOMAIN sent

\* C18: onClose for an id without a PlayerState, be it of a connection
\* that never joined or a close event that comes again after the id was
\* removed, ends normally and leaves players, currentMood and chatHistory
\* exactly as they were.
C18_CloseIsIdempotent ==
    [][ (last'.op = "onClose" /\ last'.conn \notin DOMAIN players)
        => /\ ~last'.threw
           /\ RoomUnchanged ]_vars

\* The close event of a connection that had joined, chatted and closed has come
\* a second time; a player and a stored message are there to be kept.
C18_Witness ==
    /\ last.op = "onClose"
    /\ ~last.open
    /\ ~last.had
    /\ DOMAIN players # {}
    /\ \E i \in 1..Len(chatHistory) :
          chatHistory[i].senderId = last.conn /\ chatHistory[i].senderName # "Unknown"

\* C19: a client hands at most 10 MOVE per second to its socket: any two MOVE
\* of one client are at least 100 ms apart, so that a window of 200 ms (from a
\* clock reading up to, not including, the reading 200 later) holds at most 2
\* of them, however many times sendPosition is called in it.
C19_MovesAtMostTenPerSecond ==
    \A c \in DOMAIN outbox :
        /\ \A i, j \in 1..Len(outbox[c]) :
              i < j => outbox[c][j].at - outbox[c][i].at >= 100
        /\ \A i \in 1..Len(outbox[c]) :
              Cardinality({j \in 1..Len(outbox[c]) :
                             /\ outbox[c][i].at <= outbox[c][j].at
                             /\ outbox[c][j].at < outbox[c][i].at + 200}) <= 2

\* sendPosition has been called 50 times or more, all within 200 ms of the
\* first call, and 2 MOVE were handed to the socket, the second one 100 ms or
\* more after the first.
C19_Witness ==
    \E c \in DOMAIN outbox :
        /\ calls[c] >= Burst
        /\ Len(outbox[c]) = 2
        /\ hook[c].lastPositionSend = outbox[c][2].at
        /\ outbox[c][2].at - outbox[c][1].at >= 100
        /\ outbox[c][2].msg.type = "MOVE"
        /\ now - outbox[c][1].at < 200

\* C20 (as claimed): when a client's listener takes an INIT, at its first
\* connect or at a later one, its mirror becomes the INIT payload: players
\* holds exactly the ids of INIT.players, each with the PlayerState sent,
\* chatMessages is INIT.chatHistory, message by message, and currentMood is
\* INIT.currentMood; nothing of the mirror before the INIT is left.
C20_InitReplacesMirror ==
    [][ ( /\ last'.op = "message"
          /\ Head(inbox[last'.conn]).type = "INIT" )
        => LET init == Head(inbox[last'.conn]).payload
               h == hook'[last'.conn]
           IN  /\ DOMAIN h.players = DOMAIN init.players
               /\ \A id \in DOMAIN init.players :
                     /\ h.players[id].id = init.players[id].id
                     /\ h.players[id].name = init.players[id].name
                     /\ h.players[id].position = init.players[id].position
                     /\ h.players[id].rotation = init.players[id].rotation
                     /\ h.players[id].isActive = init.players[id].isActive
               /\ Len(h.chatMessages) = Len(init.chatHistory)
               /\ \A i \in 1..Len(init.chatHistory) :
                     /\ h.chatMessages[i].id = init.chatHistory[i].id
                     /\ h.chatMessages[i].senderId = init.chatHistory[i].senderId
                     /\ h.chatMessages[i].text = init.chatHistory[i].text
                     /\ h.chatMessages[i].timestamp = DateOf(init.chatHistory[i].timestamp)
               /\ h.currentMood = init.currentMood ]_vars

\* C25 (as claimed): in every reachable state the ids of the messages in
\* chatHistory are pairwise distinct, an id being the sender's connection id
\* with the hub's clock reading when the CHAT is handled.
C25_ChatIdsDistinct ==
    \A i, j \in 1..Len(chatHistory) :
        i # j => chatHistory[i].id # chatHistory[j].id

\* C28: a JOIN of a connection that is a player leaves the number of players as
\* it is.  With fewer than 8 players its PlayerState is replaced by a fresh one at
\* the spawn position (the others stay) and every other open connection is sent
\* PLAYER_JOINED; with 8 players the sender is sent ERROR and players stays as
\* it is, the sender's PlayerState too.
C28_RejoinKeepsCount ==
    [][ ( /\ IsMessage(last', "JOIN")
          /\ WellFormed(last'.msg)
          /\ last'.conn \in DOMAIN players )
        => /\ Cardinality(DOMAIN players') = Cardinality(DOMAIN players)
           /\ Cardinality(DOMAIN players) < MaxPlayers
                 => /\ players'[last'.conn] = NewPlayer(last'.conn, last'.msg.payload)
                    /\ players'[last'.conn].position = <<"0", "1.6", "5">>
                    /\ \A k \in DOMAIN players \ {last'.conn} : players'[k] = players[k]
                    /\ DOMAIN sent' = conns' \ {last'.conn}
                    /\ \A d \in conns' \ {last'.conn} :
                          /\ OneEnvelope(sent', d, "PLAYER_JOINED")
                          /\ sent'[d][1].payload = players'[last'.conn]
           /\ Cardinality(DOMAIN players) >= MaxPlayers
                 => /\ players' = players
                    /\ DOMAIN sent' = {last'.conn}
                    /\ OneEnvelope(sent', last'.conn, "ERROR") ]_vars

\* A player has sent JOIN again in a room of fewer than 8: it is at the spawn
\* position and another player was sent the PLAYER_JOINED.
C28_Witness ==
    /\ IsMessage(last, "JOIN")
    /\ last.had
    /\ Cardinality(DOMAIN players) < MaxPlayers
    /\ players[last.conn].position = SpawnPosition
    /\ last.conn \in LivelyConn
    /\ \E d \in DOMAIN players : d # last.conn /\ OneEnvelope(sent, d, "PLAYER_JOINED")

\* A client is in step with the hub when its connection is open and its
\* listener has taken every envelope the hub sent to it.
InStep(c) == c \in conns /\ inbox[c] = <<>>

\* C26 (as claimed): for a client in step with the hub, the keys of its mirror
\* players are the hub's players keys but its own id, each mirrored player has
\* the hub's position and rotation, and its currentMood is the hub's.
C26_MirrorFollowsHub ==
    \A c \in DOMAIN hook :
        InStep(c)
        => /\ DOMAIN hook[c].players = DOMAIN players \ {c}
           /\ \A id \in DOMAIN players \ {c} :
                 /\ hook[c].players[id].position = players[id].position
                 /\ hook[c].players[id].rotation = players[id].rotation
           /\ hook[c].currentMood = currentMood

\* C30: a client's mirror players never holds the client's own connection id,
\* whatever the order of its connect, JOIN, close and reconnect among the other
\* connections' events; for a client that is a player and in step with the hub,
\* the size of the mirror plus one is the number of players in the room.
C30_MirrorWithoutSelf ==
    \A c \in DOMAIN hook :
        /\ c \notin DOMAIN hook[c].players
        /\ (InStep(c) /\ c \in DOMAIN players)
              => Cardinality(DOMAIN hook[c].players) + 1 = Cardinality(DOMAIN players)

\* The client is a player in step with the hub, after another player's
\* PLAYER_JOINED reached it: its mirror holds the other player only.
C30_Witness ==
    \E c \in DOMAIN hook :
        /\ InStep(c)
        /\ c \in DOMAIN players
        /\ last.op = "message" /\ last.conn = c
        /\ Cardinality(DOMAIN players) >= 2
        /\ DOMAIN hook[c].players = DOMAIN players \ {c}
        /\ \E id \in DOMAIN hook[c].players : hook[c].players[id].position # SpawnPosition

\* C24 (as claimed): when a client's listener takes an ERROR envelope, such as
\* the answer to a JOIN sent to a full room, the client's state comes to show
\* it: the state after the ERROR differs from the state before, as it does not
\* after an accepted JOIN, to which the hub sends the client nothing.
C24_ErrorIsSurfaced ==
    [][ ( /\ last'.op = "message"
          /\ Head(inbox[last'.conn]).type = "ERROR" )
        => hook'[last'.conn] # hook[last'.conn] ]_vars

\* C27: a client's chatMessages never holds more than 50 entries and is a
\* run of consecutive messages of the hub's feed, in the feed's order; when
\* the client is connected and has taken everything the hub sent it, the run
\* ends with the newest message of the feed.
C27_ChatMirrorIsARun ==
    \A c \in DOMAIN hook :
        LET m == hook[c].chatMessages
        IN  /\ Len(m) <= MaxChatHistory
            /\ \E k \in 0..(Len(feed.all) - Len(m)) :
                  \A i \in 1..Len(m) : m[i] = Dated(feed.all[k + i])
            /\ (InStep(c) /\ feed.all # <<>>) =>
                  /\ m # <<>>
                  /\ m[Len(m)] = Dated(feed.all[Len(feed.all)])

\* The mirror is full, has let go of the oldest messages and ends, its listener
\* having just run, with the newest one.
C27_Witness ==
    \E c \in DOMAIN hook :
        /\ InStep(c)
        /\ last.op = "message" /\ last.conn = c
        /\ Len(feed.all) > MaxChatHistory
        /\ Len(hook[c].chatMessages) = MaxChatHistory
        /\ hook[c].chatMessages[1] # Dated(feed.all[1])
        /\ hook[c].chatMessages[MaxChatHistory] = Dated(feed.all[Len(feed.all)])

Joins(w) == Cardinality({i \in 1..Len(w) : w[i].type = "JOIN"})

\* C21 (as claimed): when the connection of a client opens, what the client
\* has sent on it is one JOIN with its name, avatar and avatarColor and nothing
\* else, and no other step of the client sends a JOIN.
C21_JoinFirstOnEveryOpen ==
    [][ \A c \in DOMAIN partySocket :
          /\ (last'.op = "open" /\ last'.conn = c) =>
                partySocket'[c].wire = <<JoinMsg(AgentName, AgentAvatar, AgentColor)>>
          /\ (last'.op # "open" \/ last'.conn # c) =>
                Joins(partySocket'[c].wire) <= Joins(partySocket[c].wire) ]_vars

\* C22 (as claimed): a client that was connected and lost its connection has
\* never failed to connect more than maxReconnectAttempts times in a row.
C22_RetriesAreCapped ==
    \A c \in DOMAIN partySocket :
        (hook[c].connectionId # 0 /\ ~hook[c].isConnected) =>
            partySocket[c].retries <= MaxReconnectAttempts

\* C23: once the effect of a client is cleaned up, its heartbeat interval is
\* not set, socketRef is empty and its socket is closed; and every step from
\* such a state adds nothing to what the client has sent or has kept to send
\* and leaves its mirror of the room as it was.
C23_TornDownIsQuiet ==
    [][ \A c \in DOMAIN partySocket :
          /\ hook'[c].effect = "cleaned" =>
                /\ ~hook'[c].heartbeat
                /\ ~hook'[c].socket
                /\ partySocket'[c].readyState = "closed"
          /\ hook[c].effect = "cleaned" =>
                /\ Len(partySocket'[c].wire) <= Len(partySocket[c].wire)
                /\ partySocket'[c].queue = partySocket[c].queue
                /\ hook'[c].players = hook[c].players
                /\ hook'[c].chatMessages = hook[c].chatMessages
                /\ hook'[c].currentMood = hook[c].currentMood ]_vars

\* A client that was open as connection c is cleaned up while an envelope of
\* the hub waits for its listener, and then calls sendChat.
C23_Witness ==
    \E c \in DOMAIN partySocket :
        /\ hook[c].effect = "cleaned"
        /\ hook[c].connectionId = c
        /\ inbox[c] # <<>>
        /\ last.op = "sendChat" /\ last.conn = c
        /\ last.msg = ChatMsg(Str("hi", 2))

\* C29 (as claimed): while a client has a PlayerState, its socket is open as a
\* connection of the hub, none of its MOVE messages waits and its Controls have
\* recorded a send, the hub's position for it is Controls.lastSentPosition.
C29_HubAtLastSentPosition ==
    \A c \in DOMAIN controls :
        ( /\ c \in DOMAIN players
          /\ c \in conns
          /\ partySocket[c].readyState = "open"
          /\ \A i \in 1..Len(Pending(c)) : Pending(c)[i].type # "MOVE"
          /\ controls[c].recorded )
        => players[c].position = controls[c].lastSentPosition

====
